---- MODULE Spec2Model ----
(***************************************************************************)
(* Model of api/chat.py: the POST handler of the pharma sales chatbot.     *)
(*                                                                         *)
(* One request is one run of do_POST.  The handler is cut at its external  *)
(* calls (body parse, credential check, database download, the two LLM     *)
(* calls, the query execution, the response write, the temp-file cleanup), *)
(* and pc is the position of the handler between them.                     *)
(*                                                                         *)
(* Strings whose characters the code inspects (api_key, message) are       *)
(* sequences of one-character strings.  Messages the code only forwards    *)
(* (exception texts, LLM answers) are tuples of string fragments, one      *)
(* fragment per piece the f-string concatenates.                           *)
(*                                                                         *)
(* sales_euro is REAL in the table; the model keeps whole euros and gives  *)
(* percentages in hundredths (20.0 % is 2000), rounding exact quotients.   *)
(***************************************************************************)
EXTENDS Integers, Sequences, FiniteSets, TLC

VARIABLES
    pc,             \* position of do_POST
    request,        \* the HTTP request: Content-Length header, body
    file_id_set,    \* GOOGLE_DRIVE_FILE_ID is set in the environment
    table,          \* rows of pharma_sales in the remote database file
    db_valid,       \* the downloaded file is a SQLite db holding pharma_sales
    now,            \* month index of date('now') at query execution
    user_message,   \* data.get('message', '')
    api_key,        \* data.get('api_key', '')
    file_exists,    \* the temporary .db file exists on disk
    sql_query,      \* the query generate_sql_query returned
    results_df,     \* the DataFrame execute_query returned
    response,       \* the text generate_response returned
    exc,            \* the exception travelling to the outer handler
    responses,      \* what send_response_json put on the wire, in order
    calls,          \* external calls made so far, in order
    mentioned       \* the entities generate_response found in the question

vars == <<pc, request, file_id_set, table, db_valid, now, user_message, api_key,
          file_exists, sql_query, results_df, response, exc, responses, calls,
          mentioned>>

-----------------------------------------------------------------------------
(* Bounds of the model *)

MaxRows == 2

NowMonth == 34

\* months the clock may advance between an execution and a re-execution
MaxClock == 12

\* re-executions of one query
MaxReexec == 2

\* words of a question
MaxWords == 3

\* rows of a query result
MaxFrameRows == 11

-----------------------------------------------------------------------------
(* Program constants *)

StatusOk == 200

StatusBadRequest == 400

StatusServerError == 500

HeadRows == 10

None == "None"

SK_PREFIX == <<"s", "k", "-">>

TEST_CONNECTION == <<"t","e","s","t"," ","c","o","n","n","e","c","t","i","o","n">>

TEST_SQL == "SELECT COUNT(*) as total FROM pharma_sales"

-----------------------------------------------------------------------------
(* JSON values of the request body, and Python's operations on them *)

Str(s) == [t |-> "str", s |-> s, n |-> 0]

Num(n) == [t |-> "num", s |-> <<>>, n |-> n]

Null == [t |-> "null", s |-> <<>>, n |-> 0]

Absent == [t |-> "absent", s |-> <<>>, n |-> 0]

\* dict.get(key, ''): the value, or the empty string when the key is missing
Get(v) == IF v.t = "absent" THEN Str(<<>>) ELSE v

\* Python truthiness: '' , 0 and None are falsy
Truthy(v) ==
    CASE v.t = "str"  -> v.s # <<>>
      [] v.t = "num"  -> v.n # 0
      [] OTHER        -> FALSE

\* str.startswith
StartsWith(s, p) == Len(s) >= Len(p) /\ SubSeq(s, 1, Len(p)) = p

LowerChar(c) ==
    CASE c = "A" -> "a"
      [] c = "B" -> "b"
      [] c = "C" -> "c"
      [] c = "D" -> "d"
      [] c = "E" -> "e"
      [] c = "F" -> "f"
      [] c = "G" -> "g"
      [] c = "H" -> "h"
      [] c = "I" -> "i"
      [] c = "J" -> "j"
      [] c = "K" -> "k"
      [] c = "L" -> "l"
      [] c = "M" -> "m"
      [] c = "N" -> "n"
      [] c = "O" -> "o"
      [] c = "P" -> "p"
      [] c = "Q" -> "q"
      [] c = "R" -> "r"
      [] c = "S" -> "s"
      [] c = "T" -> "t"
      [] c = "U" -> "u"
      [] c = "V" -> "v"
      [] c = "W" -> "w"
      [] c = "X" -> "x"
      [] c = "Y" -> "y"
      [] c = "Z" -> "z"
      [] OTHER   -> c

\* str.lower
Lower(s) == [i \in 1..Len(s) |-> LowerChar(s[i])]

-----------------------------------------------------------------------------
(* generate_response: the entities of the question, lines 340-379 *)

BrandNames ==
    << <<"S","b">>,
       <<"O","T","I","P","A","X">>,
       <<"S","A","F","O","R","E","L","L","E">>,
       <<"M","U","C","O","G","Y","N","E">>,
       <<"H","Y","D","R","O","M","E","G","A">>,
       <<"G","A","L","A","C","T","O","G","I","L">>,
       <<"S","Y","M","B","I","O","S","Y","S">>,
       <<"M","E","D","I","K","I","N","E","T">>,
       <<"S","T","E","R","I","M","A","R">>,
       <<"G","E","S","T","A","R","E","L","L","E">> >>

CountryNames ==
    << <<"M","e","x","i","c","o">>,
       <<"B","r","a","z","i","l">>,
       <<"F","r","a","n","c","e">>,
       <<"G","e","r","m","a","n","y">>,
       <<"B","e","l","g","i","u","m">>,
       <<"P","o","l","a","n","d">>,
       <<"U","k","r","a","i","n","e">>,
       <<"R","u","s","s","i","a">>,
       <<"T","u","r","k","e","y">>,
       <<"U","S">>,
       <<"I","n","d","i","a">>,
       <<"I","t","a","l","y">>,
       <<"R","o","m","a","n","i","a">>,
       <<"B","u","l","g","a","r","i","a">>,
       <<"E","s","t","o","n","i","a">>,
       <<"F","i","n","l","a","n","d">>,
       <<"G","r","e","e","c","e">>,
       <<"H","u","n","g","a","r","y">>,
       <<"L","a","t","v","i","a">>,
       <<"L","i","t","h","u","a","n","i","a">>,
       <<"M","o","r","o","c","c","o">>,
       <<"P","o","r","t","u","g","a","l">> >>

MarketNames ==
    << <<"G","u","t"," ","M","i","c","r","o","b","i","o","t","a"," ","C","a","r","e">>,
       <<"E","a","r"," ","D","r","o","p","s">>,
       <<"I","n","t","i","m","a","t","e"," ","D","r","y","n","e","s","s">>,
       <<"I","m","m","u","n","i","t","y">>,
       <<"U","r","i","n","a","r","y">>,
       <<"I","n","t","i","m","a","t","e"," ","C","a","r","e">>,
       <<"P","r","e","g","n","a","n","c","y">>,
       <<"W","e","i","g","h","t"," ","C","o","n","t","r","o","l">> >>

BIOCODEX == <<"b","i","o","c","o","d","e","x">>

BiocodexName == <<"B","i","o","c","o","d","e","x">>

\* stands for None: no name of the lists is empty
NoEntity == <<>>

\* Python's  sub in s
Contains(s, sub) ==
    \E i \in 1..(Len(s) - Len(sub) + 1) : SubSeq(s, i, i + Len(sub) - 1) = sub

\* a variant without the break: the last matching name of the list stays
RECURSIVE C13_LastMentioned(_, _)
C13_LastMentioned(names, question) ==
    IF names = <<>> THEN NoEntity
    ELSE LET rest == C13_LastMentioned(Tail(names), question)
         IN  IF rest # NoEntity THEN rest
             ELSE IF Contains(Lower(question), Lower(Head(names)))
                  THEN Head(names) ELSE NoEntity

\* for name in names: if name.lower() in question.lower(): ...; break
RECURSIVE FirstInList(_, _)
FirstInList(names, question) ==
    IF names = <<>> THEN NoEntity
    ELSE IF Contains(Lower(question), Lower(Head(names))) THEN Head(names)
    ELSE FirstInList(Tail(names), question)

FirstMentioned(names, question) == FirstInList(names, question)

\* lines 369-379
ResponseType(brand, country, market, company) ==
    IF brand # NoEntity /\ country # NoEntity THEN "BRAND_COUNTRY_SPECIFIC"
    ELSE IF brand # NoEntity THEN "BRAND_SPECIFIC"
    ELSE IF company # NoEntity THEN "COMPANY_SPECIFIC"
    ELSE IF market # NoEntity \/ country # NoEntity THEN "MARKET_SPECIFIC"
    ELSE "GENERIC"

Entities(question) ==
    LET brand   == FirstMentioned(BrandNames, question)
        country == FirstMentioned(CountryNames, question)
        market  == FirstMentioned(MarketNames, question)
        company == IF Contains(Lower(question), BIOCODEX)
                   THEN BiocodexName ELSE NoEntity
    IN  [brand_mentioned   |-> brand,
         country_mentioned |-> country,
         market_mentioned  |-> market,
         company_mentioned |-> company,
         response_type     |-> ResponseType(brand, country, market, company)]

NoEntities ==
    [brand_mentioned   |-> NoEntity,
     country_mentioned |-> NoEntity,
     market_mentioned  |-> NoEntity,
     company_mentioned |-> NoEntity,
     response_type     |-> ""]

-----------------------------------------------------------------------------
(* send_response_json *)

\* json.dumps raises TypeError on a bytes value (a BLOB cell of the result)
JsonSerializable(body) ==
    \A i \in 1..Len(body.data) :
        \A c \in DOMAIN body.data[i] : body.data[i][c].k # "bytes"

\* The status line and headers go out first; json.dumps runs inside the
\* argument of wfile.write, after end_headers.
SendResponseJson(body, status) ==
    Append(responses, [status  |-> status,
                       body    |-> body,
                       written |-> JsonSerializable(body)])

\* a variant that reports a row count with every error
C10_ErrorBodyMutant(msg, query) ==
    [error |-> msg, sql_query |-> query, data |-> <<>>, total_rows |-> 0]

ErrorBody(msg, query) == [error |-> msg, sql_query |-> query, data |-> <<>>]

-----------------------------------------------------------------------------
(* The table and the values of a query result *)

Brands == {"Sb", "OTIPAX"}

Markets == {"Gut Microbiota Care", "Ear Drops"}

Countries == {"Ukraine", "Mexico"}

\* month indexes, 0 is 2023-01: 2024-06 and 2025-06
Dates == {17, 29}

Sales == {0, 100, 300, 900}

TableRows ==
    [brands_new : Brands, brand : Brands, competitive_market : Markets,
     country : Countries, date : Dates, sales_euro : Sales]

\* the consolidated name and the original name agree in the modelled rows
Rows == {r \in TableRows : r.brand = r.brands_new}

SeqsUpTo(S, n) == UNION {[1..k -> S] : k \in 0..n}

Tables == SeqsUpTo(Rows, MaxRows)

Year(d) == 2023 + (d \div 12)

Month(d) == (d % 12) + 1

\* a cell of a DataFrame
NumCell(v) == [k |-> "num", v |-> v, s |-> ""]

TextCell(s) == [k |-> "text", v |-> 0, s |-> s]

\* SQL NULL as pandas reads it: a missing value (NaN / None), pd.isna is True
NaN == [k |-> "nan", v |-> 0, s |-> ""]

\* Python None, which json.dumps writes as null
NoneCell == [k |-> "none", v |-> 0, s |-> ""]

\* a BLOB value, which pandas hands over as bytes
BytesCell == [k |-> "bytes", v |-> 0, s |-> ""]

IsNa(c) == c.k \in {"nan", "none"}

\* SQL UPPER() on the brand names of the model
Upper(s) ==
    CASE s = "Sb"     -> "SB"
      [] s = "sb"     -> "SB"
      [] s = "otipax" -> "OTIPAX"
      [] OTHER        -> s

RECURSIVE SumEuro(_)
SumEuro(rows) ==
    IF rows = <<>> THEN 0 ELSE Head(rows).sales_euro + SumEuro(Tail(rows))

\* SQL SUM(sales_euro): NULL over no rows
Sum(rows) == IF rows = <<>> THEN NaN ELSE NumCell(SumEuro(rows))

Abs(x) == IF x < 0 THEN -x ELSE x

\* a / b rounded to the nearest integer, halves away from zero (b # 0)
RoundDiv(a, b) ==
    LET q == (2 * Abs(a) + Abs(b)) \div (2 * Abs(b))
    IN  IF (a < 0) # (b < 0) THEN -q ELSE q

\* the WHERE clause shared by the templates
BrandMatch(r, name) ==
    Upper(r.brands_new) = Upper(name) \/ Upper(r.brand) = Upper(name)

-----------------------------------------------------------------------------
(* The query shapes of create_system_prompt, as SQLite evaluates them *)

\* ROUND(((current - previous) / previous * 100), 2), in hundredths of a
\* percent.  SQLite: an operand NULL gives NULL, and x / 0 is NULL.
Growth(cur, prev) ==
    IF cur.k # "num" \/ prev.k # "num" THEN NaN
    ELSE IF prev.v = 0 THEN NaN
    ELSE NumCell(RoundDiv((cur.v - prev.v) * 10000, prev.v))

GrowthRow(cur, prev) ==
    [current_sales |-> cur, previous_sales |-> prev,
     sales_growth_percent |-> Growth(cur, prev)]

\* DEFAULT MAT QUERY STRUCTURE
MatQuery(t, today, name, ctry) ==
    LET Cur(r)  == /\ r.date >= today - 12
                   /\ BrandMatch(r, name) /\ r.country = ctry
        Prev(r) == /\ r.date >= today - 24 /\ r.date < today - 12
                   /\ BrandMatch(r, name) /\ r.country = ctry
    IN  <<GrowthRow(Sum(SelectSeq(t, Cur)), Sum(SelectSeq(t, Prev)))>>

\* YTD QUERY STRUCTURE
YtdQuery(t, today, name, ctry) ==
    LET Cur(r)  == /\ Year(r.date) = Year(today)
                   /\ BrandMatch(r, name) /\ r.country = ctry
        Prev(r) == /\ Year(r.date) = Year(today) - 1
                   /\ Month(r.date) <= Month(today)
                   /\ BrandMatch(r, name) /\ r.country = ctry
    IN  <<GrowthRow(Sum(SelectSeq(t, Cur)), Sum(SelectSeq(t, Prev)))>>

\* ROUND((brand_sales / total_sales * 100), 2), in hundredths of a percent
Share(brand_sales, total_sales) ==
    IF brand_sales.k # "num" \/ total_sales.k # "num" THEN NaN
    ELSE IF total_sales.v = 0 THEN NaN
    ELSE NumCell(RoundDiv(brand_sales.v * 10000, total_sales.v))

\* MARKET SHARE CALCULATION PATTERN.  brand_data aggregates without GROUP BY,
\* so its bare column competitive_market is the value of some matching row
\* (NULL when none matches): every choice is a possible result.
MarketShareQuery(t, name, ctry, yr) ==
    LET Brand(r) == BrandMatch(r, name) /\ r.country = ctry /\ Year(r.date) = yr
        bd       == SelectSeq(t, Brand)
        picks    == IF bd = <<>> THEN {NaN}
                    ELSE {TextCell(bd[i].competitive_market) : i \in 1..Len(bd)}
        Total(m) == LET InMarket(r) == /\ m.k = "text"
                                       /\ r.competitive_market = m.s
                                       /\ r.country = ctry /\ Year(r.date) = yr
                    IN  Sum(SelectSeq(t, InMarket))
    IN  {<<[brand_sales |-> Sum(bd), total_sales |-> Total(m),
            competitive_market |-> m,
            market_share_percent |-> Share(Sum(bd), Total(m))]>> : m \in picks}

\* a plain listing of the brand's rows, in rowid order
RowsQuery(t, name) ==
    LET Is(r)  == BrandMatch(r, name)
        sel    == SelectSeq(t, Is)
    IN  [i \in 1..Len(sel) |->
            [country |-> TextCell(sel[i].country),
             sales_euro |-> NumCell(sel[i].sales_euro)]]

\* what the first LLM call may return: the shapes of the prompt filled in
\* with the prompt's own example ('Sb' in 'Ukraine', 2025), a query with a
\* BLOB column, and text that is no valid SQL
QueryBrand == "sb"

QueryCountry == "Ukraine"

\* the year the market-share template names
QueryYear == 2025

SqlShapes == {"MAT", "YTD", "MARKET_SHARE", "ROWS", "BLOB", "MALFORMED"}

-----------------------------------------------------------------------------
(* PharmaDataManager.execute_query: the set of (df, error) it may return;   *)
(* error <<>> stands for None                                               *)

QueryResult(df) == [df |-> df, err |-> <<>>]

QueryError(msg) == [df |-> <<>>, err |-> <<msg>>]

ExecuteQuery(query) ==
    IF ~db_valid THEN {QueryError("no such table: pharma_sales")}
    ELSE CASE query = TEST_SQL  -> {QueryResult(<<[total |-> NumCell(Len(table))]>>)}
           [] query = "MAT"     -> {QueryResult(MatQuery(table, now, QueryBrand, QueryCountry))}
           [] query = "YTD"     -> {QueryResult(YtdQuery(table, now, QueryBrand, QueryCountry))}
           [] query = "MARKET_SHARE" ->
                {QueryResult(df) :
                    df \in MarketShareQuery(table, QueryBrand, QueryCountry, QueryYear)}
           [] query = "ROWS"    -> {QueryResult(RowsQuery(table, QueryBrand))}
           [] query = "BLOB"    -> {QueryResult(<<[payload |-> BytesCell]>>)}
           [] OTHER             -> {QueryError("near \"MALFORMED\": syntax error")}

-----------------------------------------------------------------------------
(* The requests and environments of the model *)

ApiKeys ==
    { Absent, Null, Num(0), Num(123), Str(<<>>),
      Str(<<"s", "k">>), Str(<<"p", "k", "-", "1">>), Str(<<"s", "k", "-", "1">>) }

Messages ==
    { Absent, Null, Num(5), Str(TEST_CONNECTION),
      Str(<<"T","e","s","t"," ","C","o","n","n","e","c","t","i","o","n">>),
      Str(<<"S","b"," ","s","a","l","e","s">>) }

\* a body that is no JSON, a JSON array, a JSON object with the two keys
Bodies ==
    { [kind |-> "unparsable", message |-> Absent, api_key |-> Absent],
      [kind |-> "array",      message |-> Absent, api_key |-> Absent] }
    \cup [kind : {"object"}, message : Messages, api_key : ApiKeys]

Requests == [content_length : BOOLEAN, body : Bodies]

ValidKey == Str(<<"s", "k", "-", "1">>)

Question == Str(<<"S","b"," ","s","a","l","e","s">>)

\* the prompt's market-share example: brand total 300, market total 1200
ExampleTable ==
    << [brands_new |-> "Sb", brand |-> "Sb",
        competitive_market |-> "Gut Microbiota Care",
        country |-> "Ukraine", date |-> 29, sales_euro |-> 300],
       [brands_new |-> "OTIPAX", brand |-> "OTIPAX",
        competitive_market |-> "Gut Microbiota Care",
        country |-> "Ukraine", date |-> 29, sales_euro |-> 900],
       [brands_new |-> "Sb", brand |-> "Sb",
        competitive_market |-> "Gut Microbiota Care",
        country |-> "Ukraine", date |-> 17, sales_euro |-> 100] >>

DownloadFailures ==
    {"HTTPError", "Timeout"}

LlmFailures == {"AuthenticationError", "RateLimitError"}

-----------------------------------------------------------------------------
(* Initial states *)

Fresh ==
    /\ pc = "start"
    /\ user_message = Absent
    /\ api_key = Absent
    /\ file_exists = FALSE
    /\ sql_query = None
    /\ results_df = <<>>
    /\ response = <<>>
    /\ exc = <<>>
    /\ responses = <<>>
    /\ calls = <<>>
    /\ now = NowMonth
    /\ mentioned = NoEntities

\* every request, against a few databases
Init ==
    /\ Fresh
    /\ request \in Requests
    /\ file_id_set \in BOOLEAN
    /\ db_valid \in BOOLEAN
    /\ table \in {<<>>, ExampleTable}

\* every table, under a well-formed question and a working environment
InitTables ==
    /\ Fresh
    /\ request \in { r \in Requests :
                        /\ r.content_length
                        /\ r.body.kind = "object"
                        /\ r.body.api_key = ValidKey
                        /\ r.body.message = Question }
    /\ file_id_set = TRUE
    /\ db_valid = TRUE
    /\ table \in Tables

-----------------------------------------------------------------------------
(* do_POST *)

\* lines 491-493: int(headers['Content-Length']) and json.loads; line 495:
\* data.get on what json.loads returned
ParseFailure(req) ==
    CASE ~req.content_length        -> <<"TypeError">>
      [] req.body.kind = "unparsable" -> <<"JSONDecodeError">>
      [] req.body.kind = "array"      -> <<"AttributeError">>
      [] OTHER                        -> <<>>

ParseRequest ==
    /\ pc = "start"
    /\ ParseFailure(request) = <<>>
    /\ user_message' = Get(request.body.message)
    /\ api_key' = Get(request.body.api_key)
    /\ pc' = "check"
    /\ UNCHANGED <<request, file_id_set, table, db_valid, now, file_exists,
                   sql_query, results_df, response, exc, responses, calls,
                   mentioned>>

ParseRaises ==
    /\ pc = "start"
    /\ ParseFailure(request) # <<>>
    /\ exc' = ParseFailure(request)
    /\ pc' = "except"
    /\ UNCHANGED <<request, file_id_set, table, db_valid, now, user_message,
                   api_key, file_exists, sql_query, results_df, response,
                   responses, calls,
                   mentioned>>

\* line 498: not api_key or not api_key.startswith('sk-').  A truthy value
\* that is no string has no startswith: AttributeError.
CheckKey(key) ==
    IF ~Truthy(key) THEN "reject"
    ELSE IF key.t # "str" THEN "raise"
    ELSE IF ~StartsWith(key.s, SK_PREFIX) THEN "reject"
    ELSE "accept"

RejectCredential ==
    /\ pc = "check"
    /\ CheckKey(api_key) = "reject"
    /\ responses' = SendResponseJson(
            ErrorBody(<<"Valid OpenAI API key required">>, None), StatusBadRequest)
    /\ pc' = "done"
    /\ UNCHANGED <<request, file_id_set, table, db_valid, now, user_message,
                   api_key, file_exists, sql_query, results_df, response, exc,
                   calls,
                   mentioned>>

CredentialRaises ==
    /\ pc = "check"
    /\ CheckKey(api_key) = "raise"
    /\ exc' = <<"AttributeError">>
    /\ pc' = "except"
    /\ UNCHANGED <<request, file_id_set, table, db_valid, now, user_message,
                   api_key, file_exists, sql_query, results_df, response,
                   responses, calls,
                   mentioned>>

AcceptCredential ==
    /\ pc = "check"
    /\ CheckKey(api_key) = "accept"
    /\ pc' = "download"
    /\ UNCHANGED <<request, file_id_set, table, db_valid, now, user_message,
                   api_key, file_exists, sql_query, results_df, response, exc,
                   responses, calls,
                   mentioned>>

\* download_database, lines 589-605, and the two constructors of 510-511
DownloadDatabase ==
    /\ pc = "download"
    /\ file_id_set
    /\ file_exists' = TRUE
    /\ calls' = Append(calls, "download")
    /\ pc' = "route"
    /\ UNCHANGED <<request, file_id_set, table, db_valid, now, user_message,
                   api_key, sql_query, results_df, response, exc, responses,
                   mentioned>>

DownloadRaises ==
    /\ pc = "download"
    /\ \E why \in IF file_id_set THEN DownloadFailures
                  ELSE {"GOOGLE_DRIVE_FILE_ID environment variable not set"} :
          exc' = <<"Database download failed: ", why>>
    /\ calls' = IF file_id_set THEN Append(calls, "download") ELSE calls
    /\ pc' = "except"
    /\ UNCHANGED <<request, file_id_set, table, db_valid, now, user_message,
                   api_key, file_exists, sql_query, results_df, response,
                   responses,
                   mentioned>>

\* line 514: user_message.lower() on a value that is no string
MessageRaises ==
    /\ pc = "route"
    /\ user_message.t # "str"
    /\ exc' = <<"AttributeError">>
    /\ pc' = "except"
    /\ UNCHANGED <<request, file_id_set, table, db_valid, now, user_message,
                   api_key, file_exists, sql_query, results_df, response,
                   responses, calls,
                   mentioned>>

IsTestConnection(msg) == msg.t = "str" /\ Lower(msg.s) = TEST_CONNECTION

\* a variant that reports len(test_df), the size of the one-row result
C2_ConnectedBodyMutant(df) ==
    [response  |-> [text  |-> <<"Connected! Database has ", " records.">>,
                    total |-> Len(df)],
     sql_query |-> TEST_SQL,
     data      |-> df,
     total_rows |-> Len(df)]

\* lines 523-528
ConnectedBody(df) ==
    [response  |-> [text  |-> <<"Connected! Database has ", " records.">>,
                    total |-> df[1].total.v],
     sql_query |-> TEST_SQL,
     data      |-> df,
     total_rows |-> Len(df)]

\* lines 514-529
TestConnection ==
    /\ pc = "route"
    /\ IsTestConnection(user_message)
    /\ \E r \in ExecuteQuery(TEST_SQL) :
          responses' =
            IF r.err # <<>>
            THEN SendResponseJson(ErrorBody(<<"Database error: ">> \o r.err, None),
                                  StatusOk)
            ELSE SendResponseJson(ConnectedBody(r.df), StatusOk)
    /\ calls' = Append(calls, "execute")
    /\ pc' = "done"
    /\ UNCHANGED <<request, file_id_set, table, db_valid, now, user_message,
                   api_key, file_exists, sql_query, results_df, response, exc,
                   mentioned>>

\* generate_sql_query, lines 302-325, and do_POST 532-539
GenerateSql ==
    /\ pc = "route"
    /\ user_message.t = "str"
    /\ ~IsTestConnection(user_message)
    /\ \E q \in SqlShapes : sql_query' = q
    /\ calls' = Append(calls, "llm_sql")
    /\ pc' = "execute"
    /\ UNCHANGED <<request, file_id_set, table, db_valid, now, user_message,
                   api_key, file_exists, results_df, response, exc, responses,
                   mentioned>>

GenerateSqlFails ==
    /\ pc = "route"
    /\ user_message.t = "str"
    /\ ~IsTestConnection(user_message)
    /\ \E e \in LlmFailures :
          responses' = SendResponseJson(
              ErrorBody(<<"Error generating SQL query: ", e>>, None), StatusOk)
    /\ calls' = Append(calls, "llm_sql")
    /\ pc' = "done"
    /\ UNCHANGED <<request, file_id_set, table, db_valid, now, user_message,
                   api_key, file_exists, sql_query, results_df, response, exc,
                   mentioned>>

\* lines 542-549
ExecuteSql ==
    /\ pc = "execute"
    /\ \E r \in ExecuteQuery(sql_query) :
          /\ r.err = <<>>
          /\ results_df' = r.df
    /\ calls' = Append(calls, "execute")
    /\ pc' = "respond"
    /\ UNCHANGED <<request, file_id_set, table, db_valid, now, user_message,
                   api_key, file_exists, sql_query, response, exc, responses,
                   mentioned>>

\* a variant that hides the engine's message behind a fixed text
C3_DatabaseErrorBodyMutant(err, query) ==
    ErrorBody(<<"Database error: ", "query failed">>, query)

DatabaseErrorBody(err, query) == ErrorBody(<<"Database error: ">> \o err, query)

\* a variant that asks the LLM for another query after a SQL error
C12_ExecuteSqlFailsMutant ==
    /\ pc = "execute"
    /\ \E r \in ExecuteQuery(sql_query) : r.err # <<>>
    /\ calls' = Append(calls, "execute")
    /\ pc' = "route"
    /\ UNCHANGED <<request, file_id_set, table, db_valid, now, user_message,
                   api_key, file_exists, sql_query, results_df, response, exc,
                   responses,
                   mentioned>>

ExecuteSqlFails ==
    /\ pc = "execute"
    /\ \E r \in ExecuteQuery(sql_query) :
          /\ r.err # <<>>
          /\ responses' = SendResponseJson(DatabaseErrorBody(r.err, sql_query),
                                           StatusOk)
    /\ calls' = Append(calls, "execute")
    /\ pc' = "done"
    /\ UNCHANGED <<request, file_id_set, table, db_valid, now, user_message,
                   api_key, file_exists, sql_query, results_df, response, exc,
                   mentioned>>

\* generate_response, lines 327-481: the answer, or on any exception the
\* text "Error generating response: ..." as the return value
GenerateResponse ==
    /\ pc = "respond"
    /\ response' = <<"answer">>
    /\ mentioned' = Entities(user_message.s)
    /\ calls' = Append(calls, "llm_response")
    /\ pc' = "send"
    /\ UNCHANGED <<request, file_id_set, table, db_valid, now, user_message,
                   api_key, file_exists, sql_query, results_df, exc, responses>>

GenerateResponseFails ==
    /\ pc = "respond"
    /\ \E e \in LlmFailures : response' = <<"Error generating response: ", e>>
    /\ mentioned' = Entities(user_message.s)
    /\ calls' = Append(calls, "llm_response")
    /\ pc' = "send"
    /\ UNCHANGED <<request, file_id_set, table, db_valid, now, user_message,
                   api_key, file_exists, sql_query, results_df, exc, responses>>

Min(a, b) == IF a < b THEN a ELSE b

\* lines 555-561: the first ten rows, missing values as None
DataForResponse(df) ==
    [i \in 1..Min(HeadRows, Len(df)) |->
        [c \in DOMAIN df[i] |-> IF IsNa(df[i][c]) THEN NoneCell ELSE df[i][c]]]

\* a variant that counts the rows kept instead of the rows returned
C15_SuccessBodyMutant(text, query, df) ==
    [response   |-> text,
     sql_query  |-> query,
     data       |-> DataForResponse(df),
     total_rows |-> Len(DataForResponse(df))]

\* lines 563-568
SuccessBody(text, query, df) ==
    [response   |-> text,
     sql_query  |-> query,
     data       |-> DataForResponse(df),
     total_rows |-> Len(df)]

SendSuccess ==
    /\ pc = "send"
    /\ JsonSerializable(SuccessBody(response, sql_query, results_df))
    /\ responses' = SendResponseJson(SuccessBody(response, sql_query, results_df),
                                     StatusOk)
    /\ pc' = "cleanup"
    /\ UNCHANGED <<request, file_id_set, table, db_valid, now, user_message,
                   api_key, file_exists, sql_query, results_df, response, exc,
                   calls,
                   mentioned>>

\* json.dumps raises after the 200 status line and the headers were sent
SendSuccessRaises ==
    /\ pc = "send"
    /\ ~JsonSerializable(SuccessBody(response, sql_query, results_df))
    /\ responses' = SendResponseJson(SuccessBody(response, sql_query, results_df),
                                     StatusOk)
    /\ exc' = <<"TypeError">>
    /\ pc' = "except"
    /\ UNCHANGED <<request, file_id_set, table, db_valid, now, user_message,
                   api_key, file_exists, sql_query, results_df, response, calls,
                   mentioned>>

\* lines 570-572
Cleanup ==
    /\ pc = "cleanup"
    /\ file_exists' = FALSE
    /\ pc' = "done"
    /\ UNCHANGED <<request, file_id_set, table, db_valid, now, user_message,
                   api_key, sql_query, results_df, response, exc, responses,
                   calls,
                   mentioned>>

\* a variant that leaves the status at send_response_json's default
C6_HandleExceptionMutant ==
    /\ pc = "except"
    /\ responses' = SendResponseJson(ErrorBody(<<"Server error: ">> \o exc, None),
                                     StatusOk)
    /\ pc' = "done"
    /\ UNCHANGED <<request, file_id_set, table, db_valid, now, user_message,
                   api_key, file_exists, sql_query, results_df, response, exc,
                   calls,
                   mentioned>>

\* a variant that removes the temporary file in the outer handler as well
C7_HandleExceptionMutant ==
    /\ pc = "except"
    /\ responses' = SendResponseJson(ErrorBody(<<"Server error: ">> \o exc, None),
                                     StatusServerError)
    /\ file_exists' = FALSE
    /\ pc' = "done"
    /\ UNCHANGED <<request, file_id_set, table, db_valid, now, user_message,
                   api_key, sql_query, results_df, response, exc, calls,
                   mentioned>>

\* lines 574-579
HandleException ==
    /\ pc = "except"
    /\ responses' = SendResponseJson(ErrorBody(<<"Server error: ">> \o exc, None),
                                     StatusServerError)
    /\ pc' = "done"
    /\ UNCHANGED <<request, file_id_set, table, db_valid, now, user_message,
                   api_key, file_exists, sql_query, results_df, response, exc,
                   calls,
                   mentioned>>

Next ==
    \/ ParseRequest
    \/ ParseRaises
    \/ RejectCredential
    \/ CredentialRaises
    \/ AcceptCredential
    \/ DownloadDatabase
    \/ DownloadRaises
    \/ MessageRaises
    \/ TestConnection
    \/ GenerateSql
    \/ GenerateSqlFails
    \/ ExecuteSql
    \/ ExecuteSqlFails
    \/ GenerateResponse
    \/ GenerateResponseFails
    \/ SendSuccess
    \/ SendSuccessRaises
    \/ Cleanup
    \/ HandleException

\* the steps of a question when the download and the LLM calls succeed
NextTables ==
    \/ ParseRequest
    \/ AcceptCredential
    \/ DownloadDatabase
    \/ GenerateSql
    \/ ExecuteSql
    \/ ExecuteSqlFails
    \/ GenerateResponse
    \/ SendSuccess
    \/ SendSuccessRaises
    \/ Cleanup
    \/ HandleException

Spec == Init /\ [][Next]_vars

SpecTables == InitTables /\ [][NextTables]_vars

-----------------------------------------------------------------------------
(* Vocabulary of the properties *)

BodyKeys == {"response", "sql_query", "data", "total_rows", "error"}

Keys(i) == DOMAIN responses[i].body

\* the body parsed: a JSON object, with a Content-Length header
WellFormed == request.content_length /\ request.body.kind = "object"

\* the credential is a string that starts with sk-
KeyHasPrefix ==
    /\ request.body.api_key.t = "str"
    /\ StartsWith(request.body.api_key.s, SK_PREFIX)

DownloadFailed == exc # <<>> /\ exc[1] = "Database download failed: "

\* the file was fetched and holds the table
DatabaseReachable == file_id_set /\ db_valid /\ ~DownloadFailed

AsksTestConnection == request.body.message = Str(TEST_CONNECTION)

\* the first LLM call failed: it is the last call of a finished request
SqlGenerationFailed == calls = <<"download", "llm_sql">>

AnswerGenerationFailed ==
    response # <<>> /\ response[1] = "Error generating response: "

SuccessPath == <<"download", "llm_sql", "execute", "llm_response">>

-----------------------------------------------------------------------------
(* C1 *)

\* C1 (as claimed): a well-formed request whose api_key is missing or is any
\* value that does not start with sk- is answered with status 400, an error
\* field and empty data.
C1_BadKeyIs400 ==
    (pc = "done" /\ WellFormed /\ ~KeyHasPrefix) =>
        /\ Len(responses) = 1
        /\ responses[1].status = StatusBadRequest
        /\ "error" \in Keys(1)
        /\ responses[1].body.data = <<>>

-----------------------------------------------------------------------------
(* C2 *)

\* C2 (as claimed): a request whose message is "test connection", with a
\* reachable database, is answered with a response field giving the row
\* count and no error field.
C2_TestConnectionOriginal ==
    (pc = "done" /\ WellFormed /\ AsksTestConnection /\ DatabaseReachable) =>
        /\ Len(responses) = 1
        /\ "response" \in Keys(1)
        /\ "error" \notin Keys(1)

\* C2 (amended): a request whose api_key starts with sk- and whose message
\* is "test connection", with a reachable database, is answered with a
\* response field giving the row count of pharma_sales and no error field.
C2_TestConnection ==
    (pc = "done" /\ WellFormed /\ KeyHasPrefix /\ AsksTestConnection
        /\ DatabaseReachable) =>
        /\ Len(responses) = 1
        /\ responses[1].written
        /\ "response" \in Keys(1)
        /\ "error" \notin Keys(1)
        /\ responses[1].body.response.total = Len(table)

C2_Witness ==
    /\ pc = "done" /\ WellFormed /\ KeyHasPrefix /\ AsksTestConnection
    /\ DatabaseReachable
    /\ Len(table) = 3
    /\ Len(responses) = 1 /\ "response" \in Keys(1)

-----------------------------------------------------------------------------
(* C3 *)

\* C3: when executing the generated SQL fails, the answer is status 200 with
\* the engine's message carried unchanged in error (after the fixed prefix),
\* empty data, the query, no response field; generate_response is not called.
C3_QueryFailure ==
    (pc = "done" /\ calls = <<"download", "llm_sql", "execute">>) =>
        \E r \in ExecuteQuery(sql_query) :
            /\ r.err # <<>>
            /\ Len(responses) = 1
            /\ responses[1].written
            /\ responses[1].status = StatusOk
            /\ Keys(1) = {"error", "sql_query", "data"}
            /\ responses[1].body.error = <<"Database error: ">> \o r.err
            /\ responses[1].body.data = <<>>

C3_Witness ==
    /\ pc = "done" /\ calls = <<"download", "llm_sql", "execute">>
    /\ sql_query = "MALFORMED" /\ db_valid
    /\ Len(responses) = 1

-----------------------------------------------------------------------------
(* C4 *)

\* C4 (as claimed): the status of the response is 400 exactly when the
\* credential is missing or malformed, 500 exactly when an exception reached
\* the outer handler, and 200 in every other case.  The status is the one of
\* the first status line, the one the client reads.
C4_StatusDiscipline ==
    pc = "done" =>
        LET status == responses[1].status
            badKey == WellFormed /\ ~KeyHasPrefix
        IN  /\ (status = StatusBadRequest) <=> badKey
            /\ (status = StatusServerError) <=> (exc # <<>>)
            /\ (status = StatusOk) <=> (~badKey /\ exc = <<>>)

-----------------------------------------------------------------------------
(* C5 *)

\* C5 (as claimed): a failure of either LLM call is reported in the error
\* field with status 200, and the body has no response field.
C5_LlmFailureInError ==
    (pc = "done" /\ (SqlGenerationFailed \/ AnswerGenerationFailed)
        /\ exc = <<>>) =>
        /\ Len(responses) = 1
        /\ responses[1].status = StatusOk
        /\ "error" \in Keys(1)
        /\ "response" \notin Keys(1)

-----------------------------------------------------------------------------
(* C6 *)

NoCallAfterDownload == \A i \in 1..Len(calls) : calls[i] = "download"

\* C6 (as claimed): a failed download is reported in the error field with
\* status 200, and neither an LLM call nor a query execution follows.
C6_DownloadFailureOriginal ==
    (pc = "done" /\ DownloadFailed) =>
        /\ Len(responses) = 1
        /\ responses[1].status = StatusOk
        /\ "error" \in Keys(1)
        /\ NoCallAfterDownload

\* C6 (amended): a failed download is reported in the error field with
\* status 500, the message being "Server error: Database download failed: "
\* and the cause; neither an LLM call nor a query execution follows.
C6_DownloadFailure ==
    (pc = "done" /\ DownloadFailed) =>
        /\ Len(responses) = 1
        /\ responses[1].written
        /\ responses[1].status = StatusServerError
        /\ responses[1].body.error = <<"Server error: ">> \o exc
        /\ responses[1].body.data = <<>>
        /\ NoCallAfterDownload

C6_Witness ==
    /\ pc = "done" /\ DownloadFailed /\ exc[2] = "Timeout"
    /\ Len(responses) = 1

-----------------------------------------------------------------------------
(* C7 *)

Downloaded == calls # <<>> /\ ~DownloadFailed

SuccessSent ==
    /\ calls = SuccessPath
    /\ Len(responses) = 1
    /\ responses[1].written
    /\ responses[1].status = StatusOk
    /\ "response" \in Keys(1)

\* C7: the temporary file is deleted only on the success path, after the
\* success response was written; at the end of every other path that
\* follows a successful download the file still exists.
C7_CleanupOnlyOnSuccess ==
    /\ (Downloaded /\ ~file_exists) => (pc = "done" /\ SuccessSent)
    /\ (Downloaded /\ pc = "done") => (file_exists <=> ~SuccessSent)

C7_Witness ==
    /\ pc = "done" /\ Downloaded /\ file_exists
    /\ exc = <<"TypeError">>

C7_WitnessDeleted == pc = "done" /\ Downloaded /\ ~file_exists

-----------------------------------------------------------------------------
(* C8 *)

MatRow == MatQuery(table, now, QueryBrand, QueryCountry)[1]

HasNull(data) ==
    \E i \in 1..Len(data) : \E c \in DOMAIN data[i] : data[i][c].k = "none"

\* C8 (as claimed): the growth the MAT query returns is
\* (current - previous) / previous * 100 rounded to two decimals, and when
\* the previous-period total is 0 the computation fails with a division
\* error, reported in error: data then holds no null.
C8_GrowthOrDivisionError ==
    (pc = "done" /\ sql_query = "MAT"
        /\ MatRow.current_sales.k = "num" /\ MatRow.previous_sales.k = "num") =>
        IF MatRow.previous_sales.v # 0
        THEN /\ responses[1].written
             /\ responses[1].body.data[1].sales_growth_percent =
                    NumCell(RoundDiv((MatRow.current_sales.v
                                        - MatRow.previous_sales.v) * 10000,
                                     MatRow.previous_sales.v))
        ELSE /\ "error" \in Keys(1)
             /\ ~HasNull(responses[1].body.data)

-----------------------------------------------------------------------------
(* C9 *)

\* C9 (as claimed): whatever the table holds, a market share the query
\* returns lies between 0 and 100 percent.
C9_ShareWithinBounds ==
    (pc = "done" /\ sql_query = "MARKET_SHARE" /\ responses[1].written) =>
        LET share == responses[1].body.data[1].market_share_percent
        IN  share.k = "num" => (0 <= share.v /\ share.v <= 10000)

-----------------------------------------------------------------------------
(* C10 *)

\* C10: every body sent has its keys among response, sql_query, data,
\* total_rows and error; it has data, exactly one of response and error, and
\* with error its data is empty and it has no total_rows.
C10_BodyShape ==
    \A i \in 1..Len(responses) :
        responses[i].written =>
            /\ Keys(i) \subseteq BodyKeys
            /\ "data" \in Keys(i)
            /\ ("response" \in Keys(i)) # ("error" \in Keys(i))
            /\ "error" \in Keys(i) =>
                    /\ responses[i].body.data = <<>>
                    /\ "total_rows" \notin Keys(i)

C10_Witness ==
    /\ pc = "done"
    /\ Len(responses) = 2
    /\ ~responses[1].written
    /\ responses[2].written /\ "error" \in Keys(2)

-----------------------------------------------------------------------------
(* Re-execution of the generated query against the same database file *)

\* time passes: date('now') of a later execution is a later month
ClockAdvances ==
    /\ pc = "respond"
    /\ \E later \in (now + 1)..(NowMonth + MaxClock) : now' = later
    /\ UNCHANGED <<pc, request, file_id_set, table, db_valid, user_message,
                   api_key, file_exists, sql_query, results_df, response, exc,
                   responses, calls,
                   mentioned>>

\* execute_query called again with the same query on the same file.  The
\* row SQLite takes a bare column from follows its scan of the file, so on
\* one file the market-share query resolves the same market each time.
Reexecute ==
    /\ pc = "respond"
    /\ Len(calls) < 3 + MaxReexec
    /\ \E r \in ExecuteQuery(sql_query) :
          /\ r.err = <<>>
          /\ sql_query = "MARKET_SHARE" =>
                r.df[1].competitive_market = results_df[1].competitive_market
          /\ results_df' = r.df
    /\ calls' = Append(calls, "reexecute")
    /\ UNCHANGED <<pc, request, file_id_set, table, db_valid, now, user_message,
                   api_key, file_exists, sql_query, response, exc, responses,
                   mentioned>>

\* a well-formed question against the tables of at most one row and the
\* example table
InitReexec ==
    /\ Fresh
    /\ request = [content_length |-> TRUE,
                  body |-> [kind |-> "object", message |-> Question,
                            api_key |-> ValidKey]]
    /\ file_id_set = TRUE
    /\ db_valid = TRUE
    /\ table \in SeqsUpTo(Rows, 1) \cup {ExampleTable}

NextReexec ==
    \/ ParseRequest
    \/ AcceptCredential
    \/ DownloadDatabase
    \/ GenerateSql
    \/ ExecuteSql
    \/ ExecuteSqlFails
    \/ ClockAdvances
    \/ Reexecute

SpecReexec == InitReexec /\ [][NextReexec]_vars

-----------------------------------------------------------------------------
(* C11 *)

\* C11 (as claimed): re-executing the generated query against the same
\* snapshot of pharma_sales returns the result of the earlier execution, for
\* every query shape and whenever the re-execution happens.
C11_ReexecutionSameResult ==
    [][calls' = Append(calls, "reexecute") => results_df' = results_df]_vars

-----------------------------------------------------------------------------
(* C12 *)

IsPrefix(a, b) == Len(a) <= Len(b) /\ SubSeq(b, 1, Len(a)) = a

TestPath == <<"download", "execute">>

\* C12: the steps of one request run in the order credential check,
\* download, SQL generation, query execution, answer generation, each at
\* most once and each only after every earlier one succeeded: no call
\* without an accepted credential, no second LLM call after a SQL error, and
\* on the test-connection path one download and one execution, no LLM call.
C12_StepOrder ==
    /\ IsPrefix(calls, SuccessPath) \/ calls = TestPath
    /\ calls # <<>> => (WellFormed /\ KeyHasPrefix)
    /\ Len(calls) >= 2 => (file_exists \/ pc = "done") /\ ~DownloadFailed
    /\ (Len(calls) >= 3 \/ calls = TestPath) => user_message.t = "str"
    /\ Len(calls) >= 3 => sql_query \in SqlShapes
    /\ Len(calls) = 4 => \E r \in ExecuteQuery(sql_query) : r.err = <<>>
    /\ calls = TestPath <=>
            (pc = "done" /\ IsTestConnection(user_message) /\ ~DownloadFailed
                /\ calls # <<>>)
    /\ (pc = "done" /\ WellFormed /\ ~KeyHasPrefix) => calls = <<>>

C12_Witness ==
    /\ pc = "done"
    /\ calls = SuccessPath
    /\ Len(responses) = 1

-----------------------------------------------------------------------------
(* Questions for the entity resolution *)

Words ==
    { <<"S","b">>,
      <<"o","t","i","p","a","x">>,
      <<" ","i","n"," ">>,
      <<"M","e","x","i","c","o">>,
      <<"B","e","l","a","r","u","s">>,
      <<"E","a","r"," ","D","r","o","p","s">> }

RECURSIVE Concat(_)
Concat(ws) == IF ws = <<>> THEN <<>> ELSE Head(ws) \o Concat(Tail(ws))

\* the questions made of at most MaxWords words
Questions == {Concat(ws) : ws \in SeqsUpTo(Words, MaxWords)}

InitEntities ==
    /\ Fresh
    /\ request \in [content_length : {TRUE},
                    body : [kind : {"object"},
                            message : {Str(q) : q \in Questions},
                            api_key : {ValidKey}]]
    /\ file_id_set = TRUE
    /\ db_valid = TRUE
    /\ table = ExampleTable

\* the steps of a question up to the end of generate_response
NextEntities ==
    \/ ParseRequest
    \/ AcceptCredential
    \/ DownloadDatabase
    \/ GenerateSql
    \/ ExecuteSql
    \/ ExecuteSqlFails
    \/ GenerateResponse
    \/ GenerateResponseFails

SpecEntities == InitEntities /\ [][NextEntities]_vars

-----------------------------------------------------------------------------
(* C13 *)

Mentions(name) == Contains(Lower(user_message.s), Lower(name))

\* found is the first name of the list the question mentions, None if none
IsFirstOfList(found, names) ==
    \/ /\ found = NoEntity
       /\ \A i \in 1..Len(names) : ~Mentions(names[i])
    \/ \E i \in 1..Len(names) :
          /\ found = names[i]
          /\ Mentions(names[i])
          /\ \A j \in 1..(i - 1) : ~Mentions(names[j])

\* C13: in generate_response the brand, the country and the market resolved
\* are each the first element of the fixed list whose lower-cased name is a
\* substring of the lower-cased question, None when no element matches;
\* where the names stand in the question plays no part.
C13_FirstInListWins ==
    pc = "send" =>
        /\ IsFirstOfList(mentioned.brand_mentioned, BrandNames)
        /\ IsFirstOfList(mentioned.country_mentioned, CountryNames)
        /\ IsFirstOfList(mentioned.market_mentioned, MarketNames)

\* the question names otipax before Sb, and Sb, first in the list, is resolved
C13_Witness ==
    /\ pc = "send"
    /\ user_message.s = Concat(<<Lower(BrandNames[2]), <<" ","i","n"," ">>,
                                 BrandNames[1]>>)
    /\ mentioned.brand_mentioned = BrandNames[1]
    /\ mentioned.country_mentioned = NoEntity

-----------------------------------------------------------------------------
(* C14 *)

\* C14 (as claimed): on every path do_POST emits exactly one response: one
\* status line and one body, never a second response after a first one was
\* started.
C14_ExactlyOneResponse ==
    pc = "done" => (Len(responses) = 1 /\ responses[1].written)

-----------------------------------------------------------------------------
(* Query results of any length *)

\* a result of n rows, numbered in result order, whose value is missing in
\* the rows of the set missing
Frame(n, missing) ==
    [i \in 1..n |-> [id    |-> NumCell(i),
                     value |-> IF i \in missing THEN NaN ELSE NumCell(100)]]

Frames ==
    {Frame(n, missing) : <<n, missing>> \in
        UNION {{n} \X SUBSET (1..n) : n \in 0..MaxFrameRows}}

\* do_POST after execute_query returned a result
InitData ==
    /\ pc = "respond"
    /\ request = [content_length |-> TRUE,
                  body |-> [kind |-> "object", message |-> Question,
                            api_key |-> ValidKey]]
    /\ file_id_set = TRUE
    /\ db_valid = TRUE
    /\ table = <<>>
    /\ now = NowMonth
    /\ user_message = Question
    /\ api_key = ValidKey
    /\ file_exists = TRUE
    /\ sql_query = "ROWS"
    /\ results_df \in Frames
    /\ response = <<>>
    /\ exc = <<>>
    /\ responses = <<>>
    /\ calls = <<"download", "llm_sql", "execute">>
    /\ mentioned = NoEntities

NextData ==
    \/ GenerateResponse
    \/ GenerateResponseFails
    \/ SendSuccess
    \/ Cleanup

SpecData == InitData /\ [][NextData]_vars

-----------------------------------------------------------------------------
(* C15 *)

\* C15: on the success path data holds the first min(10, n) rows of the
\* n-row result in result order, every missing value replaced by null, and
\* total_rows is n; for an empty result data is empty and total_rows is 0.
C15_DataAndTotalRows ==
    (pc \in {"cleanup", "done"} /\ calls = SuccessPath) =>
        LET body == responses[1].body
            n    == Len(results_df)
        IN  /\ responses[1].written
            /\ body.total_rows = n
            /\ Len(body.data) = (IF n < HeadRows THEN n ELSE HeadRows)
            /\ \A i \in 1..Len(body.data) :
                  /\ DOMAIN body.data[i] = DOMAIN results_df[i]
                  /\ \A c \in DOMAIN results_df[i] :
                        body.data[i][c] =
                            IF results_df[i][c].k = "nan" THEN NoneCell
                            ELSE results_df[i][c]

\* eleven rows returned, ten sent, a missing value among them sent as null
C15_Witness ==
    /\ pc = "done" /\ calls = SuccessPath
    /\ Len(results_df) = 11
    /\ results_df[3].value = NaN
    /\ Len(responses[1].body.data) = 10
    /\ responses[1].body.data[3].value = NoneCell
    /\ responses[1].body.total_rows = 11

====
